---- MODULE Spec2Model ----
(***************************************************************************)
(* FunctionsFactory.ts of realm-web: the argument sanitizer cleanArgs, the *)
(* FunctionsFactory class with its async callFunction, and the Proxy that  *)
(* create() wraps around a factory.                                        *)
(*                                                                         *)
(* JavaScript values are records [t |-> <type tag>, v |-> <payload>].  An  *)
(* object is a function from Keys to values, the marker Absent standing    *)
(* for a key the object does not have; an array is a sequence in which     *)
(* Absent stands for a hole (an index that is not an own property).        *)
(***************************************************************************)
EXTENDS Integers, Sequences, FiniteSets, TLC

VARIABLES config, factory, calls, requests, microtasks, lastRead, san

vars == <<config, factory, calls, requests, microtasks, lastRead, san>>

(***************************************************************************)
(* Bounds of the model.                                                    *)
(***************************************************************************)
MaxArgs == 2
MaxArrLen == 2
MaxCalls == 2
MaxProxyCalls == 1

(***************************************************************************)
(* JavaScript values.                                                      *)
(***************************************************************************)
Num(n) == [t |-> "number", v |-> n]
Undef == [t |-> "undefined", v |-> 0]
Null == [t |-> "null", v |-> 0]
Absent == [t |-> "absent", v |-> 0]
Obj(f) == [t |-> "object", v |-> f]
Arr(s) == [t |-> "array", v |-> s]
Promise == [t |-> "promise", v |-> 0]
Err(e) == [t |-> "error", v |-> e]

Keys == {"a", "b", "value"}

\* typeof: null and arrays are "object" too
TypeOf(x) == IF x.t \in {"object", "array", "null"} THEN "object" ELSE x.t

\* the object literal with the given fields
Lit(fields) == Obj([k \in Keys |-> IF k \in DOMAIN fields THEN fields[k] ELSE Absent])

(***************************************************************************)
(* cleanArgs                                                               *)
(***************************************************************************)
\* Object.entries(arg) throws a TypeError when arg is null (or undefined)
EntriesThrows(arg) == arg.t \in {"null", "undefined"}

\* the inner loop: every own enumerable string key whose value is undefined is deleted
DeleteUndefined(arg) ==
    CASE arg.t = "object" ->
            Obj([k \in Keys |-> IF arg.v[k] = Undef THEN Absent ELSE arg.v[k]])
      [] arg.t = "array" ->
            Arr([i \in 1..Len(arg.v) |-> IF arg.v[i] = Undef THEN Absent ELSE arg.v[i]])
      [] OTHER -> arg

\* index of the first argument on which the loop throws, 0 when it completes
FirstThrow(args) ==
    LET bad == {i \in 1..Len(args) : TypeOf(args[i]) = "object" /\ EntriesThrows(args[i])}
    IN  IF bad = {} THEN 0 ELSE CHOOSE i \in bad : \A j \in bad : i <= j

TypeErrorEntries == Err("TypeError: Cannot convert undefined or null to object")

\* the result of cleanArgs(args): whether it threw, the error, and the argument
\* list as the in-place deletions left it (the arguments before the throw are cleaned)
cleanArgs(args) ==
    LET ft == FirstThrow(args)
        clean(i) == IF TypeOf(args[i]) = "object" THEN DeleteUndefined(args[i]) ELSE args[i]
    IN  [threw |-> ft # 0,
         error |-> IF ft # 0 THEN TypeErrorEntries ELSE Undef,
         val   |-> [i \in 1..Len(args) |-> IF ft # 0 /\ i >= ft THEN args[i] ELSE clean(i)]]

(***************************************************************************)
(* Inputs of the sanitizer.                                                *)
(***************************************************************************)
ArgKeys == {"a", "b"}
PropVals == {Num(1), Undef}
Objects ==
    {Obj(f) : f \in {g \in [Keys -> PropVals \cup {Absent}] :
                        \A k \in Keys \ ArgKeys : g[k] = Absent}}
SeqsUpTo(S, n) == UNION {[1..m -> S] : m \in 0..n}
Arrays == {Arr(s) : s \in SeqsUpTo(PropVals, MaxArrLen)}
Prims == {Num(1), Undef, Null}
SanValues == Prims \cup Objects \cup Arrays
SanInputs == SeqsUpTo(SanValues, MaxArgs)

NoResult == [threw |-> FALSE, error |-> Undef, val |-> <<>>]

(***************************************************************************)
(* The configuration and the constructor's defaults.  An option that is    *)
(* not given is "<undefined>"; argsTransformation may be given as null,    *)
(* which disables the sanitizer.                                           *)
(***************************************************************************)
UNDEFINED == "<undefined>"

\* create({transport}): no option but the transport is given
DefaultOptions ==
    [serviceName |-> UNDEFINED, argsTransformation |-> UNDEFINED,
     responseTransformation |-> UNDEFINED]

Configurations ==
    [serviceName : {UNDEFINED, "", "mongodb-atlas"},
     argsTransformation : {UNDEFINED, "null"},
     responseTransformation : {UNDEFINED, "r => r.value"}]

\* the constructor: the fields of the factory, with the defaults filled in
FunctionsFactory(cfg) ==
    [serviceName |-> IF cfg.serviceName = UNDEFINED THEN "" ELSE cfg.serviceName,
     argsTransformation |->
        IF cfg.argsTransformation = UNDEFINED THEN "cleanArgs" ELSE cfg.argsTransformation,
     responseTransformation |-> cfg.responseTransformation]

(***************************************************************************)
(* Property values: what a property read on the factory or on the proxy    *)
(* yields.                                                                 *)
(***************************************************************************)
PUndefined == [kind |-> "undefined", name |-> ""]
PNull == [kind |-> "null", name |-> ""]
PString(s) == [kind |-> "string", name |-> s]
PFunction(f) == [kind |-> "function", name |-> f]
PTransport == [kind |-> "transport", name |-> ""]
\* FunctionsFactory.prototype.callFunction, not bound to any object
PMethod(m) == [kind |-> "method", name |-> m]
\* target.callFunction.bind(target, p)
PBound(p) == [kind |-> "bound", name |-> p]

Truthy(x) == ~(x.kind \in {"undefined", "null"} \/ x = PString(""))

StrKey(s) == [t |-> "string", v |-> s]
SymKey(s) == [t |-> "symbol", v |-> s]

RESERVED_NAMES == {"inspect", "callFunction"}

\* Reflect.get(target, p, receiver): the ordinary lookup on the factory object
ReflectGet(p) ==
    CASE p = StrKey("transport") -> PTransport
      [] p = StrKey("serviceName") -> PString(factory.serviceName)
      [] p = StrKey("argsTransformation") ->
            IF factory.argsTransformation = "null" THEN PNull
            ELSE PFunction(factory.argsTransformation)
      [] p = StrKey("responseTransformation") ->
            IF factory.responseTransformation = UNDEFINED THEN PUndefined
            ELSE PFunction(factory.responseTransformation)
      [] p = StrKey("callFunction") -> PMethod("callFunction")
      [] OTHER -> PUndefined

\* mutant: the reserved names are not consulted
ProxyGetNoReserved(p) == IF p.t = "string" THEN PBound(p.v) ELSE ReflectGet(p)

\* the get trap of the Proxy
ProxyGet(p) ==
    IF p.t = "string" /\ p.v \notin RESERVED_NAMES
    THEN PBound(p.v)
    ELSE ReflectGet(p)

\* this.<p> inside callFunction: through the trap when this is the proxy
ThisGet(this, p) == IF this = "proxy" THEN ProxyGet(StrKey(p)) ELSE ReflectGet(StrKey(p))

(***************************************************************************)
(* callFunction, up to the await.                                          *)
(***************************************************************************)
\* mutant: the service field is always written
CallFunctionBodyAlways(name, arguments, sn) ==
    [name |-> name, arguments |-> arguments,
     service |-> IF sn.kind = "string" THEN sn.name ELSE "[function]"]

\* the body; sn is the value of this.serviceName
CallFunctionBody(name, arguments, sn) ==
    IF Truthy(sn)
    THEN [name |-> name, arguments |-> arguments,
          service |-> IF sn.kind = "string" THEN sn.name ELSE "[function]"]
    ELSE [name |-> name, arguments |-> arguments]

\* mutant: the request goes out as a GET
FetchRequestGet(body) == [method |-> "GET", path |-> "/functions/call", body |-> body]

\* the request descriptor handed to transport.fetch
FetchRequest(body) == [method |-> "POST", path |-> "/functions/call", body |-> body]

TypeErrorFetch == Err("TypeError: this.transport.fetch is not a function")

RECURSIVE callFunctionSync(_, _, _)
\* The synchronous part of callFunction(name, ...args) with the given this:
\* threw/error when it ends in a rejection before any await, args as the
\* caller's argument list is left, sent the requests handed to the
\* transport in order, awaits whether the call now awaits the last of them.
callFunctionSync(this, name, args) ==
    LET at == ThisGet(this, "argsTransformation")
        \* a bound accessor called as argsTransformation is itself a call of
        \* callFunction on the target, with the args array as its one argument
        inner == callFunctionSync("target", at.name, <<Arr(args)>>)
        tr == CASE ~Truthy(at) ->
                    [threw |-> FALSE, error |-> Undef, args |-> args,
                     arguments |-> Arr(args), sent |-> <<>>]
                [] at.kind = "function" ->
                    LET c == cleanArgs(args)
                    IN  [threw |-> c.threw, error |-> c.error, args |-> c.val,
                         arguments |-> Arr(c.val), sent |-> <<>>]
                [] OTHER ->
                    [threw |-> FALSE, error |-> Undef, args |-> inner.args[1].v,
                     arguments |-> Promise, sent |-> inner.sent]
        body == CallFunctionBody(name, tr.arguments, ThisGet(this, "serviceName"))
        tp == ThisGet(this, "transport")
    IN  IF tr.threw
        THEN [threw |-> TRUE, error |-> tr.error, args |-> tr.args,
              sent |-> tr.sent, awaits |-> FALSE]
        ELSE IF tp.kind # "transport"
        THEN [threw |-> TRUE, error |-> TypeErrorFetch, args |-> tr.args,
              sent |-> tr.sent, awaits |-> FALSE]
        ELSE [threw |-> FALSE, error |-> Undef, args |-> tr.args,
              sent |-> Append(tr.sent, FetchRequest(body)), awaits |-> TRUE]

(***************************************************************************)
(* callFunction, after the await.                                          *)
(***************************************************************************)
\* r.value for the configured transformation r => r.value
GetValue(r) ==
    IF r.t = "object" /\ r.v["value"] # Absent THEN r.v["value"] ELSE Undef

\* mutant: the transformation is skipped
TransformResponseSkipped(rt, response) == response

\* lines 78-82; rt is the value of this.responseTransformation
TransformResponse(rt, response) ==
    IF Truthy(rt) THEN GetValue(response) ELSE response

\* mutant: a failed fetch is swallowed and the call resolves to undefined
ResumeSwallow(call, ok, val) ==
    IF ok
    THEN [call EXCEPT !.status = "resolved",
                      !.value = TransformResponse(ThisGet(call.this, "responseTransformation"), val)]
    ELSE [call EXCEPT !.status = "resolved", !.value = Undef]

\* the call record once the awaited fetch has settled: a rejection of the
\* awaited promise rejects the call with the same error
Resume(call, ok, val) ==
    IF ok
    THEN [call EXCEPT !.status = "resolved",
                      !.value = TransformResponse(ThisGet(call.this, "responseTransformation"), val)]
    ELSE [call EXCEPT !.status = "rejected", !.value = val]

\* mutant: a settlement wakes every pending call
AwaitingAny(cs, r) == {c \in DOMAIN cs : cs[c].status = "pending"}

\* the calls whose await is on the promise of request r
Awaiting(cs, r) == {c \in DOMAIN cs : cs[c].status = "pending" /\ cs[c].req = r}

(***************************************************************************)
(* State.  calls: one record per invocation made by the program; requests: *)
(* what the transport was handed, in order, each with the invocation that  *)
(* caused it and the transport's answer once it has settled; microtasks:   *)
(* the continuations of callFunction that a settled fetch promise has      *)
(* queued and that have not run yet, oldest first.                         *)
(***************************************************************************)
NoRead == [key |-> SymKey("<none>"), val |-> PUndefined]
SanIdle == [stage |-> 0, input |-> <<>>, once |-> NoResult, twice |-> NoResult]

Responses == {Lit([value |-> Num(42)]), Num(7)}
Errors == {Err("E1")}

\* names given to callFunction itself, and keys called through the proxy
CallNames == {"foo"}
AccessorKeys == {"foo", "transport"}
CallArgs == {<<Num(1), Lit([a |-> Num(1), b |-> Undef])>>, <<Null>>}
ReadKeys ==
    {StrKey("foo"), StrKey("transport"), StrKey("callFunction"), StrKey("inspect"),
     SymKey("foo"), SymKey("Symbol.iterator")}

\* an invocation of a function value with receiver `receiver`: a bound
\* accessor ignores the receiver and its name is fixed, the unbound method
\* runs with this = receiver and takes the name as its first argument
Invoke(entry, fn, receiver, f, args) ==
    LET this == IF fn.kind = "bound" THEN "target" ELSE receiver
        name == IF fn.kind = "bound" THEN fn.name ELSE f
        r == callFunctionSync(this, name, args)
        id == Len(calls) + 1
    IN  /\ fn.kind \in {"bound", "method"}
        /\ requests' = requests \o
              [i \in 1..Len(r.sent) |->
                  [owner |-> id, method |-> r.sent[i].method, path |-> r.sent[i].path,
                   body |-> r.sent[i].body, state |-> "pending", result |-> Undef]]
        /\ calls' = Append(calls,
              [entry |-> entry, this |-> this, name |-> name, input |-> args,
               args |-> r.args,
               status |-> IF r.threw THEN "rejected" ELSE "pending",
               value |-> IF r.threw THEN r.error ELSE Undef,
               req |-> IF r.awaits THEN Len(requests) + Len(r.sent) ELSE 0])

\* factory.callFunction(f, ...args) on a FunctionsFactory itself
FactoryCall(f, args) ==
    /\ Len(calls) < MaxCalls
    /\ Invoke("factory", ReflectGet(StrKey("callFunction")), "target", f, args)
    /\ UNCHANGED <<config, factory, microtasks, lastRead, san>>

\* proxy[key](...args)
AccessorCall(key, args) ==
    /\ Len(calls) < MaxCalls
    /\ key \notin RESERVED_NAMES
    /\ Invoke("accessor", ProxyGet(StrKey(key)), "proxy", key, args)
    /\ UNCHANGED <<config, factory, microtasks, lastRead, san>>

\* proxy.callFunction(f, ...args)
EscapeCall(f, args) ==
    /\ Len(calls) < MaxCalls
    /\ Invoke("escape", ProxyGet(StrKey("callFunction")), "proxy", f, args)
    /\ UNCHANGED <<config, factory, microtasks, lastRead, san>>

\* the members of a set of call ids, in increasing order
RECURSIVE InOrder(_)
InOrder(S) ==
    IF S = {} THEN <<>>
    ELSE LET c == CHOOSE x \in S : \A y \in S : x <= y
         IN  <<c>> \o InOrder(S \ {c})

\* the transport settles the promise it returned for request r: fulfilled
\* with val (ok) or rejected with val.  The call awaiting it does not run
\* yet: its continuation is queued as a microtask.
Settle(r, ok, val) ==
    /\ requests[r].state = "pending"
    /\ requests' = [requests EXCEPT ![r].state = IF ok THEN "ok" ELSE "failed",
                                    ![r].result = val]
    /\ microtasks' = microtasks \o
          [i \in 1..Cardinality(Awaiting(calls, r)) |->
              [call |-> InOrder(Awaiting(calls, r))[i], req |-> r]]
    /\ UNCHANGED <<config, factory, calls, lastRead, san>>

SettleAny ==
    \E r \in DOMAIN requests :
        \/ \E val \in Responses : Settle(r, TRUE, val)
        \/ \E val \in Errors : Settle(r, FALSE, val)

\* the oldest queued continuation runs: callFunction resumes from its await
\* with the outcome of the promise that woke it, and settles
ResumeCall ==
    /\ microtasks # <<>>
    /\ LET m == Head(microtasks)
       IN  calls' = [calls EXCEPT ![m.call] =
                        Resume(calls[m.call], requests[m.req].state = "ok",
                               requests[m.req].result)]
    /\ microtasks' = Tail(microtasks)
    /\ UNCHANGED <<config, factory, requests, lastRead, san>>

Init ==
    /\ config \in Configurations
    /\ factory = FunctionsFactory(config)
    /\ calls = <<>>
    /\ requests = <<>>
    /\ microtasks = <<>>
    /\ lastRead = NoRead
    /\ san = SanIdle

Next ==
    \/ \E f \in CallNames, args \in CallArgs : FactoryCall(f, args)
    \/ \E key \in AccessorKeys, args \in CallArgs : AccessorCall(key, args)
    \/ \E f \in CallNames, args \in CallArgs : EscapeCall(f, args)
    \/ SettleAny
    \/ ResumeCall

Spec == Init /\ [][Next]_vars

(***************************************************************************)
(* Reads on the proxy and invocations of what was read.                    *)
(***************************************************************************)
\* proxy[key], without calling the result
Read(key) ==
    /\ lastRead' = [key |-> key, val |-> ProxyGet(key)]
    /\ UNCHANGED <<config, factory, calls, requests, microtasks, san>>

\* the value last read is called as a member of the proxy
InvokeRead(f, args) ==
    /\ Len(calls) < MaxProxyCalls
    /\ Invoke(IF lastRead.val.kind = "bound" THEN "accessor" ELSE "escape",
              lastRead.val, "proxy", f, args)
    /\ UNCHANGED <<config, factory, microtasks, lastRead, san>>

NextProxy ==
    \/ \E key \in ReadKeys : Read(key)
    \/ \E f \in CallNames, args \in CallArgs : InvokeRead(f, args)
    \/ SettleAny
    \/ ResumeCall

SpecProxy == Init /\ [][NextProxy]_vars

(***************************************************************************)
(* The sanitizer on its own: applied to an argument list, then applied     *)
(* again to the list it left.                                              *)
(***************************************************************************)
InitClean ==
    /\ config = DefaultOptions
    /\ factory = FunctionsFactory(config)
    /\ calls = <<>>
    /\ requests = <<>>
    /\ microtasks = <<>>
    /\ lastRead = NoRead
    /\ san \in {[stage |-> 0, input |-> a, once |-> NoResult, twice |-> NoResult] :
                    a \in SanInputs}

Sanitize ==
    /\ san.stage = 0
    /\ san' = [san EXCEPT !.stage = 1, !.once = cleanArgs(san.input)]
    /\ UNCHANGED <<config, factory, calls, requests, microtasks, lastRead>>

SanitizeAgain ==
    /\ san.stage = 1
    /\ san' = [san EXCEPT !.stage = 2, !.twice = cleanArgs(san.once.val)]
    /\ UNCHANGED <<config, factory, calls, requests, microtasks, lastRead>>

NextClean == Sanitize \/ SanitizeAgain

SpecClean == InitClean /\ [][NextClean]_vars

(***************************************************************************)
(* Claims.                                                                 *)
(***************************************************************************)
\* the requests an invocation caused, in the order the transport got them
ReqsOf(c) == LET mine(r) == r.owner = c IN SelectSeq(requests, mine)
BodiesOf(c) == [i \in 1..Len(ReqsOf(c)) |-> ReqsOf(c)[i].body]
Direct(c) == calls[c].entry \in {"factory", "accessor"}
\* the continuation of call c is queued and has not run yet
Queued(c) == \E i \in DOMAIN microtasks : microtasks[i].call = c

\* C1: proxy.callFunction(f, ...args) and proxy[f](...args) hand the
\* transport the same request bodies, and nothing else.
C1_EscapeHatchSameBodies ==
    \A c1, c2 \in DOMAIN calls :
        (/\ calls[c1].entry = "escape"
         /\ calls[c2].entry = "accessor"
         /\ calls[c1].name \notin RESERVED_NAMES
         /\ calls[c1].name = calls[c2].name
         /\ calls[c1].input = calls[c2].input)
        => BodiesOf(c1) = BodiesOf(c2)

\* C2: a read of a non-reserved string key yields a callable that acts as
\* callFunction(key, ...) on the underlying factory; a read of a reserved or
\* non-string key is the ordinary lookup on the factory; no read sends a request.
C2_ReadState ==
    /\ lastRead # NoRead =>
          IF lastRead.key.t = "string" /\ lastRead.key.v \notin {"inspect", "callFunction"}
          THEN lastRead.val = PBound(lastRead.key.v)
          ELSE lastRead.val = ReflectGet(lastRead.key)
    /\ \A c \in DOMAIN calls :
          calls[c].entry = "accessor" =>
             LET r == callFunctionSync("target", calls[c].name, calls[c].input)
             IN  /\ calls[c].this = "target"
                 /\ calls[c].name \notin {"inspect", "callFunction"}
                 /\ [i \in 1..Len(ReqsOf(c)) |->
                        [method |-> ReqsOf(c)[i].method, path |-> ReqsOf(c)[i].path,
                         body |-> ReqsOf(c)[i].body]] = r.sent
                 /\ calls[c].args = r.args
                 /\ (calls[c].req = 0) = r.threw

C2_ProxyReadRule ==
    /\ []C2_ReadState
    /\ [][lastRead' # lastRead => (requests' = requests /\ calls' = calls)]_vars

\* an accessor named after a field of the factory has sent its request, and
\* the reserved name callFunction has then been read
C2_Witness ==
    /\ lastRead.key = StrKey("callFunction")
    /\ lastRead.val = PMethod("callFunction")
    /\ \E c \in DOMAIN calls :
          /\ calls[c].entry = "accessor"
          /\ calls[c].name = "transport"
          /\ Len(ReqsOf(c)) = 1
          /\ ReqsOf(c)[1].body.name = "transport"

\* C3: with a non-empty serviceName every request body has service equal to
\* it; with an empty or absent one no body has a service field.
C3_ServiceField ==
    \A r \in DOMAIN requests :
        IF config.serviceName \in {UNDEFINED, ""}
        THEN "service" \notin DOMAIN requests[r].body
        ELSE /\ "service" \in DOMAIN requests[r].body
             /\ requests[r].body.service = config.serviceName

C3_Witness ==
    /\ config.serviceName = "mongodb-atlas"
    /\ \E r \in DOMAIN requests :
          /\ calls[requests[r].owner].entry = "accessor"
          /\ requests[r].body.service = "mongodb-atlas"

\* C4: a call through a proxy accessor whose fetch failed with e is rejected
\* with e itself once its continuation has run (until then it is pending):
\* it never has a result and the response transformation is not applied.
C4_ErrorUnaltered ==
    \A c \in DOMAIN calls :
        (/\ calls[c].entry = "accessor"
         /\ calls[c].req # 0
         /\ requests[calls[c].req].state = "failed")
        => IF Queued(c)
           THEN calls[c].status = "pending"
           ELSE /\ calls[c].status = "rejected"
                /\ calls[c].value = requests[calls[c].req].result

C4_Witness ==
    \E c \in DOMAIN calls :
        /\ calls[c].entry = "accessor"
        /\ config.responseTransformation # UNDEFINED
        /\ calls[c].req # 0
        /\ requests[calls[c].req].state = "failed"
        /\ calls[c].status = "rejected"
        /\ calls[c].value = Err("E1")

\* C5: a call whose fetch succeeded with r resolves, once its continuation
\* has run, to t(r) when a response transformation t is configured (42 for
\* r => r.value and {value: 42}) and to r when none is.
C5_ResponseTransformation ==
    \A c \in DOMAIN calls :
        (/\ Direct(c)
         /\ calls[c].req # 0
         /\ requests[calls[c].req].state = "ok")
        => LET r == requests[calls[c].req].result
           IN  IF Queued(c)
               THEN calls[c].status = "pending"
               ELSE /\ calls[c].status = "resolved"
                    /\ config.responseTransformation = UNDEFINED => calls[c].value = r
                    /\ config.responseTransformation = "r => r.value" =>
                          /\ r = Lit([value |-> Num(42)]) => calls[c].value = Num(42)
                          /\ r = Num(7) => calls[c].value = Undef

C5_Witness ==
    \E c \in DOMAIN calls :
        /\ Direct(c)
        /\ config.responseTransformation = "r => r.value"
        /\ calls[c].req # 0
        /\ requests[calls[c].req].result = Lit([value |-> Num(42)])
        /\ calls[c].status = "resolved"
        /\ calls[c].value = Num(42)

\* what the specification says the sanitizer returns: undefined-valued keys
\* gone from the key/value arguments, every other argument as it was
Sanitized(args) ==
    [i \in 1..Len(args) |->
        IF args[i].t = "object"
        THEN Obj([k \in Keys |-> IF args[i].v[k] = Undef THEN Absent ELSE args[i].v[k]])
        ELSE args[i]]

\* C6: cleanArgs removes exactly the undefined-valued keys of the object
\* arguments, leaves everything else untouched, keeps order and count, and
\* is idempotent.
C6_SanitizerContract ==
    /\ san.stage >= 1 =>
          /\ ~san.once.threw
          /\ Len(san.once.val) = Len(san.input)
          /\ san.once.val = Sanitized(san.input)
    /\ san.stage = 2 => san.twice = san.once

\* C7: cleanArgs has no error conditions: it returns for every argument list.
C7_SanitizerNeverThrows ==
    san.stage >= 1 => ~san.once.threw

\* C8: an array argument passes through cleanArgs unchanged: the same
\* elements at the same indices.
C8_ArraysPassThrough ==
    san.stage >= 1 =>
       \A i \in 1..Len(san.input) :
           san.input[i].t = "array" => san.once.val[i] = san.input[i]

\* the argument transformation of a direct invocation returned
ArgsTransformationReturned(c) ==
    ~(factory.argsTransformation = "cleanArgs" /\ cleanArgs(calls[c].input).threw)

\* C9: an invocation of callFunction on the factory or through an accessor
\* whose argument transformation returns causes exactly one fetch, a POST to
\* /functions/call with the requested name; no invocation fetches twice.
C9_OneFetch ==
    /\ \A c \in DOMAIN calls :
          (Direct(c) /\ ArgsTransformationReturned(c)) =>
             /\ Len(ReqsOf(c)) = 1
             /\ ReqsOf(c)[1].method = "POST"
             /\ ReqsOf(c)[1].path = "/functions/call"
             /\ ReqsOf(c)[1].body.name = calls[c].name
    /\ \A c \in DOMAIN calls : Len(ReqsOf(c)) <= 1

\* two invocations, one that never reached the transport and one whose
\* fetch failed and was not tried again
C9_Witness ==
    \E c, d \in DOMAIN calls :
        /\ Direct(c) /\ Direct(d)
        /\ ~ArgsTransformationReturned(d)
        /\ Len(ReqsOf(d)) = 0
        /\ ArgsTransformationReturned(c)
        /\ Len(ReqsOf(c)) = 1
        /\ ReqsOf(c)[1].state = "failed"
        /\ calls[c].status = "rejected"

\* C10: with several calls in flight, each call has its own request body and
\* its outcome comes from the transport's answer to its own request only;
\* the fields of the factory stay as the constructor set them.
C10_IndependentCalls ==
    /\ factory = FunctionsFactory(config)
    /\ \A c \in DOMAIN calls :
          (Direct(c) /\ calls[c].req # 0) =>
             LET q == requests[calls[c].req]
             IN  /\ q.owner = c
                 /\ q.body.name = calls[c].name
                 /\ q.body.arguments = Arr(calls[c].args)
                 /\ (calls[c].status = "pending") = (q.state = "pending" \/ Queued(c))
                 /\ calls[c].status = "resolved" =>
                       /\ q.state = "ok"
                       /\ calls[c].value =
                             IF config.responseTransformation = UNDEFINED
                             THEN q.result ELSE GetValue(q.result)
                 /\ calls[c].status = "rejected" =>
                       /\ q.state = "failed"
                       /\ calls[c].value = q.result
    /\ \A c, d \in DOMAIN calls :
          (c # d /\ calls[c].req # 0) => calls[c].req # calls[d].req
    /\ \A i \in DOMAIN microtasks :
          /\ microtasks[i].req = calls[microtasks[i].call].req
          /\ requests[microtasks[i].req].state # "pending"

\* two calls were in flight together and the later one was answered first
C10_Witness ==
    /\ Len(calls) = 2
    /\ Direct(1) /\ Direct(2)
    /\ calls[1].name # calls[2].name
    /\ calls[1].req # 0 /\ calls[1].status = "pending"
    /\ requests[calls[1].req].state = "pending"
    /\ calls[2].status = "resolved"

====
